---- MODULE Spec2Model ----
(***************************************************************************)
(* Model of velodyne_pointcloud/src/lib/rawdata.cc: the RawData base class *)
(* (calibration loader `setup`, scan handler `processScan`) and the        *)
(* derived RawDataScans / RawDataXYZ packet decoders.                      *)
(*                                                                         *)
(* Number representation.  The code computes in float; the model computes  *)
(* in exact fixed point:                                                   *)
(*   - a number read by sscanf's %f is held in hundredths (10.0 -> 1000);  *)
(*   - an angle in radians is held as a count of PI/M_PI units, so that    *)
(*     M_PI units are half a turn;                                         *)
(*   - a range in metres is held in units of 1e-8 m.                       *)
(* The Cartesian coordinates computed by scan2xyz (cosf/sinf) are not      *)
(* represented; the fields scan2xyz copies are.                            *)
(***************************************************************************)
EXTENDS Integers, Sequences, FiniteSets, TLC

\* ---------------------------------------------------------------- bounds

\* total number of calibration-file lines the model reads
MaxLines == 2

\* largest number of packets in a scan message
MaxPackets == 2

\* ----------------------------------------------------- program constants

\* lasers per bank: the literal 32 of setup's routing and of bank_origin
SCANS_PER_BLOCK == 32

\* sizeof(buffer): getline stores at most BufSize - 1 characters
BufSize == 256

\* half a turn, in the model's angle units (hundredths of a degree)
M_PI == 18000

\* 180 degrees in hundredths of a degree (the divisor of from_degrees)
HalfTurnDeg == 18000

\* data blocks per packet (rawdata.h)
BLOCKS_PER_PACKET == 12

\* bytes per return: 2 of range, 1 of intensity (rawdata.h)
RAW_SCAN_SIZE == 3

\* block header tags (rawdata.h): 0xeeff and 0xddff
UPPER_BANK == 61183

LOWER_BANK == 56831

\* sizeof(raw_packet_t): 12 blocks of 100 bytes, revolution, 4 status bytes
PACKET_SIZE == 1206

\* sizeof(raw_block_t): header, rotation, 32 returns of 3 bytes
SIZE_BLOCK == 100

\* hundredths of a degree per unit of a block's rotation field (0.01 deg)
ROTATION_RESOLUTION == 1

\* millimetres per unit of a return's range field (0.002 m)
DISTANCE_RESOLUTION == 2

SCANS_PER_PACKET == SCANS_PER_BLOCK * BLOCKS_PER_PACKET

BLOCK_DATA_SIZE == SCANS_PER_BLOCK * RAW_SCAN_SIZE

LaserIdx == 0 .. (SCANS_PER_BLOCK - 1)

BlockIdx == 0 .. (BLOCKS_PER_PACKET - 1)

\* ------------------------------------------------------------ text lines

(* A token of a line is a maximal run of non-blank characters:             *)
(*   int  "n"     dec  "n.ff"     frac  ".ff"     word  (not a number)     *)
TInt(n) == [k |-> "int", n |-> n, f |-> 0]

TDec(n, f) == [k |-> "dec", n |-> n, f |-> f]

TFrac(f) == [k |-> "frac", n |-> 0, f |-> f]

TWord == [k |-> "word", n |-> 0, f |-> 0]

\* value of the number a %f conversion reads from token t, in hundredths
FloatOf(t) == IF t.n < 0 THEN t.n * 100 - t.f ELSE t.n * 100 + t.f

\* does a conversion (d or f) succeed at the start of token t
Converts(c, t) ==
    IF c = "d" THEN t.k \in {"int", "dec"} ELSE t.k \in {"int", "dec", "frac"}

\* value stored by the conversion
ConvValue(c, t) == IF c = "d" THEN t.n ELSE FloatOf(t)

\* input left after the conversion: %d stops at the '.' of "n.ff"
ConvRest(c, t, rest) ==
    IF c = "d" /\ t.k = "dec" THEN <<TFrac(t.f)>> \o rest ELSE rest

(* sscanf(buffer, fmt, ...): the values assigned, in order, up to the first *)
(* conversion that fails or finds the input exhausted.  Its return value is *)
(* the length of this sequence (EOF on no input also compares unequal to    *)
(* 7 and 9).                                                                *)
RECURSIVE sscanf(_, _)
sscanf(toks, fmt) ==
    IF fmt = <<>> \/ toks = <<>> THEN <<>>
    ELSE IF ~Converts(Head(fmt), Head(toks)) THEN <<>>
    ELSE <<ConvValue(Head(fmt), Head(toks))>>
           \o sscanf(ConvRest(Head(fmt), Head(toks), Tail(toks)), Tail(fmt))

\* "%d %f %f %f %f %f %d"
Fmt7 == <<"d", "f", "f", "f", "f", "f", "d">>

\* "%d %f %f %f %f %f %f %f %d"
Fmt9 == <<"d", "f", "f", "f", "f", "f", "f", "f", "d">>

\* argument order of the two sscanf calls
Args7 == <<"index", "rotational", "vertical", "offset1", "offset2", "offset3",
           "enabled">>

Args9 == <<"index", "rotational", "vertical", "offset1", "offset2", "offset3",
           "vertCorr", "horzCorr", "enabled">>

\* the locals after a sscanf call that assigned vals to the first arguments
Assign(loc, args, vals) ==
    [v \in DOMAIN loc |->
        IF \E p \in 1 .. Len(vals) : args[p] = v
        THEN vals[CHOOSE p \in 1 .. Len(vals) : args[p] = v]
        ELSE loc[v]]

\* A line of the file: its first-character class, its tokens, its length.
Line(tag, toks, len) == [tag |-> tag, toks |-> toks, len |-> len]

\* angles::from_degrees: degrees * M_PI / 180
from_degrees(deg) == (deg * M_PI) \div HalfTurnDeg

\* ----------------------------------------------------------------- state

VARIABLES
    uninitialized_,   \* RawData::uninitialized_
    lower_,           \* RawData::lower_[32]
    upper_,           \* RawData::upper_[32]
    pc,               \* which handler is running, and where it stands
    loc,              \* setup's local variables (index ... vertCorr)
    buffer,           \* setup's line buffer: the line getline last stored
    nread,            \* number of lines getline has extracted from the file
    wr,               \* the array element the last loop iteration wrote
    loaded,           \* has any setup call returned 0
    kind,             \* the object's class: "scans" (RawDataScans) or "xyz"
    cbScans,          \* is RawDataScans::cb_ set (a scans callback subscribed)
    cbXYZ,            \* is RawDataXYZ::cb_ set (an XYZ callback subscribed)
    rosok,            \* ros::ok()
    rawScan_,         \* RawData::rawScan_
    i,                \* processScan's loop index
    scans_,           \* RawDataScans::scans_
    xyzScans_,        \* RawDataXYZ::xyzScans_
    out,              \* callback invocations of the current processScan call
    fin               \* how the last processScan call returned

loaderVars == <<uninitialized_, lower_, upper_, loc, buffer, nread, wr, loaded>>

decodeVars == <<kind, cbScans, cbXYZ, rosok, rawScan_, i, scans_, xyzScans_, out, fin>>

vars == <<pc, loaderVars, decodeVars>>

\* a correction_angles element after memset(0)
ZeroAngles ==
    [rotational |-> 0, vertical |-> 0, offset1 |-> 0, offset2 |-> 0,
     offset3 |-> 0, horzCorr |-> 0, vertCorr |-> 0, enabled |-> 0]

\* setup's locals as initialised at lines 91-99
ZeroLocals ==
    [index |-> 0, rotational |-> 0, vertical |-> 0, enabled |-> 0,
     offset1 |-> 0, offset2 |-> 0, offset3 |-> 0, horzCorr |-> 0,
     vertCorr |-> 0]

NoLine == Line("none", <<>>, 0)

NoWrite == [bank |-> "none", ind |-> 0]

(* RawData::RawData() zeroes the two arrays and nothing else: it leaves    *)
(* uninitialized_ unset, so the flag's first read sees either value.       *)
InitLoader ==
    /\ uninitialized_ \in BOOLEAN
    /\ lower_ = [j \in LaserIdx |-> ZeroAngles]
    /\ upper_ = [j \in LaserIdx |-> ZeroAngles]
    /\ loc = ZeroLocals
    /\ buffer = NoLine
    /\ nread = 0
    /\ wr = NoWrite
    /\ loaded = FALSE

\* ----------------------------------------------------------------- setup

\* the two sscanf calls of the else-if at lines 112-117, with short circuit
ParseLine(l, toks) ==
    LET r7 == sscanf(toks, Fmt7)
        l7 == Assign(l, Args7, r7)
        r9 == sscanf(toks, Fmt9)
        l9 == Assign(l7, Args9, r9)
    IN  IF Len(r7) = 7 THEN [loc |-> l7, matched |-> TRUE]
        ELSE [loc |-> l9, matched |-> Len(r9) = 9]

\* BankOf with the boundary off by one (sensitivity check of C4)
BankOfOffByOne(index) == IF index <= SCANS_PER_BLOCK THEN "lower" ELSE "upper"

\* lines 120-128: the array chosen for a parsed index
BankOf(index) == IF index < SCANS_PER_BLOCK THEN "lower" ELSE "upper"

\* lines 119-128: the position within it
IndOf(index) == IF index < SCANS_PER_BLOCK THEN index ELSE index - SCANS_PER_BLOCK

\* lines 129-136: the element written from the locals
AnglesOf(l) ==
    [rotational |-> from_degrees(l.rotational),
     vertical   |-> from_degrees(l.vertical),
     offset1    |-> l.offset1,
     offset2    |-> l.offset2,
     offset3    |-> l.offset3,
     horzCorr   |-> l.horzCorr,
     vertCorr   |-> l.vertCorr,
     enabled    |-> l.enabled]

(* angles[ind] = ... : the arrays after the write.  A position in 0..31     *)
(* writes that element.  Any other position is outside the array           *)
(* (undefined behaviour): the write lands either in memory the model does  *)
(* not hold, or in the neighbouring array when the two are adjacent.       *)
StoreOutcomes(lo, up, bank, ind, rec) ==
    IF ind \in LaserIdx
    THEN IF bank = "lower"
         THEN {[lower |-> [lo EXCEPT ![ind] = rec], upper |-> up]}
         ELSE {[lower |-> lo, upper |-> [up EXCEPT ![ind] = rec]]}
    ELSE {[lower |-> lo, upper |-> up]}
         \cup (IF bank = "lower" /\ (ind + SCANS_PER_BLOCK) \in LaserIdx
               THEN {[lower |-> lo,
                      upper |-> [up EXCEPT ![ind + SCANS_PER_BLOCK] = rec]]}
               ELSE {})
         \cup (IF bank = "upper" /\ (ind - SCANS_PER_BLOCK) \in LaserIdx
               THEN {[lower |-> [lo EXCEPT ![ind - SCANS_PER_BLOCK] = rec],
                      upper |-> up]}
               ELSE {})

\* lines 68-89: the file cannot be opened; setup returns -1
SetupFail ==
    /\ pc = "idle"
    /\ UNCHANGED <<pc, loaderVars, decodeVars>>

\* lines 83-103: the file opens; the locals are initialised
SetupOpen ==
    /\ pc = "idle"
    /\ pc' = "setup"
    /\ loc' = ZeroLocals
    /\ buffer' = NoLine
    /\ nread' = 0
    /\ wr' = NoWrite
    /\ UNCHANGED <<uninitialized_, lower_, upper_, loaded>>
    /\ UNCHANGED decodeVars

\* lines 104-152: one iteration of the while loop, on a line that fits
SetupLine(l) ==
    /\ pc = "setup"
    /\ nread < MaxLines
    /\ l.len < BufSize
    /\ buffer' = l
    /\ nread' = nread + 1
    /\ IF l.tag \in {"#", "upper", "lower"}
       THEN /\ wr' = NoWrite
            /\ UNCHANGED <<lower_, upper_, loc>>
       ELSE LET p == ParseLine(loc, l.toks)
                bank == BankOf(p.loc.index)
                ind == IndOf(p.loc.index)
            IN  /\ loc' = p.loc
                /\ IF p.matched
                   THEN /\ wr' = [bank |-> bank, ind |-> ind]
                        /\ \E o \in StoreOutcomes(lower_, upper_, bank, ind,
                                                  AnglesOf(p.loc)) :
                              /\ lower_' = o.lower
                              /\ upper_' = o.upper
                   ELSE /\ wr' = NoWrite
                        /\ UNCHANGED <<lower_, upper_>>
    /\ UNCHANGED <<uninitialized_, pc, loaded>>
    /\ UNCHANGED decodeVars

\* line 104: getline finds the end of the file; the loop ends
SetupEof ==
    /\ pc = "setup"
    /\ pc' = "close"
    /\ buffer' = NoLine
    /\ wr' = NoWrite
    /\ UNCHANGED <<uninitialized_, lower_, upper_, loc, nread, loaded>>
    /\ UNCHANGED decodeVars

(* line 104: the next line has BufSize - 1 characters or more before its   *)
(* newline: getline stores the first BufSize - 1 of them and sets failbit, *)
(* so the while condition is false and the loop ends.                      *)
SetupLongLine(l) ==
    /\ pc = "setup"
    /\ nread < MaxLines
    /\ l.len >= BufSize
    /\ pc' = "close"
    /\ buffer' = Line(l.tag, l.toks, BufSize - 1)
    /\ nread' = nread + 1
    /\ wr' = NoWrite
    /\ UNCHANGED <<uninitialized_, lower_, upper_, loc, loaded>>
    /\ UNCHANGED decodeVars

\* lines 154-156: close, clear uninitialized_, return 0; the locals die
SetupClose ==
    /\ pc = "close"
    /\ uninitialized_' = FALSE
    /\ loaded' = TRUE
    /\ pc' = "idle"
    /\ loc' = ZeroLocals
    /\ buffer' = NoLine
    /\ nread' = 0
    /\ wr' = NoWrite
    /\ UNCHANGED <<lower_, upper_>>
    /\ UNCHANGED decodeVars

\* ----------------------------------------------------------- raw packets

(* The packets the model feeds.  A packet message has a stamp and a byte   *)
(* buffer of `len` bytes; byte (b, k) below is data byte k of block b.     *)
PacketIds == {1, 2, 3}

PktLen(id) == IF id = 2 THEN 650 ELSE PACKET_SIZE

PktStamp(id) == 100 + id

PktHeader(id, b) ==
    IF id = 1 THEN (IF b % 2 = 0 THEN UPPER_BANK ELSE LOWER_BANK)
    ELSE IF b = 4 THEN 4660
    ELSE IF b % 3 = 0 THEN LOWER_BANK ELSE UPPER_BANK

PktRotation(id, b) ==
    IF id = 1
    THEN <<0, 18000, 17250, 19000, 35999, 1000, 9000, 27000, 18001, 17999,
           36000, 65535>>[b + 1]
    ELSE <<19000, 0, 17250, 18000, 45000, 1, 35999, 26250, 8, 9, 10, 11>>[b + 1]

PktByte(id, b, k) ==
    IF k % RAW_SCAN_SIZE = 0 THEN (7 * b + k + id) % 256
    ELSE IF k % RAW_SCAN_SIZE = 1 THEN (b + k) % 3
    ELSE (SCANS_PER_BLOCK * b + (k \div RAW_SCAN_SIZE) + 50 * id) % 256

PktRevolution(id) == IF id = 1 THEN 65535 ELSE 7

\* values a byte read beyond the end of the buffer may yield
GarbageBytes == {0, 3}

(* The cast of &pkt->data[0] to raw_packet_t: the packet as the overlay    *)
(* struct reads it.  raw names the buffer (id) and what a read beyond its  *)
(* end yields (g): a field that lies within the buffer has the buffer's    *)
(* bytes; a field beyond its end is a read outside the buffer (undefined   *)
(* behaviour) and yields g in each byte.                                   *)
RawView(id, g) == [id |-> id, g |-> g]

Inside(raw, off, n) == off + n <= PktLen(raw.id)

\* raw->blocks[b].header
RawHeader(raw, b) ==
    IF Inside(raw, SIZE_BLOCK * b, 2)
    THEN PktHeader(raw.id, b) ELSE raw.g + 256 * raw.g

\* raw->blocks[b].rotation
RawRotation(raw, b) ==
    IF Inside(raw, SIZE_BLOCK * b + 2, 2)
    THEN PktRotation(raw.id, b) ELSE raw.g + 256 * raw.g

\* raw->blocks[b].data[k]
RawData(raw, b, k) ==
    IF Inside(raw, SIZE_BLOCK * b + 4 + k, 1)
    THEN PktByte(raw.id, b, k) ELSE raw.g

\* raw->revolution
RawRevolution(raw) ==
    IF Inside(raw, SIZE_BLOCK * BLOCKS_PER_PACKET, 2)
    THEN PktRevolution(raw.id) ELSE raw.g + 256 * raw.g

\* scan messages: a frame id and up to MaxPackets packets
Scan(first, n) ==
    [frame_id |-> IF first = 1 THEN "velodyne" ELSE "lidar2",
     packets  |-> [p \in 1 .. n |->
                     ((first + p - 2) % Cardinality(PacketIds)) + 1]]

ScanSet == {Scan(first, n) : first \in {1, 2}, n \in 0 .. MaxPackets}

NullScan == [frame_id |-> "", packets |-> <<>>]

\* ------------------------------------------------------------- decoding

\* C fmod for a positive divisor: the result has the dividend's sign
fmod(a, m) == IF a >= 0 THEN a % m ELSE 0 - ((0 - a) % m)

\* angles::normalize_angle_positive
normalize_angle_positive(a) == fmod(fmod(a, 2 * M_PI) + 2 * M_PI, 2 * M_PI)

\* angles::normalize_angle
normalize_angle(angle) ==
    LET a == normalize_angle_positive(angle)
    IN  IF a > M_PI THEN a - 2 * M_PI ELSE a

\* lines 180-186: bank_origin for a block header
BankOrigin(header) == IF header = LOWER_BANK THEN 0 ELSE SCANS_PER_BLOCK

\* Corrections ignoring the header tag (sensitivity check of C9)
CorrectionsAlwaysUpper(header, lo, up) == up

\* lines 181-186: the calibration array for a block header
Corrections(header, lo, up) == IF header = LOWER_BANK THEN lo ELSE up

\* lines 188-189: the block's rotation in radians
Rotation(field) == from_degrees(field * ROTATION_RESOLUTION)

\* Heading without the sign flip (sensitivity check of C6)
HeadingNoFlip(rotation, corr) == normalize_angle(rotation - corr.rotational)

\* lines 199-200: beware, the Velodyne turns clockwise
Heading(rotation, corr) == normalize_angle(0 - (rotation - corr.rotational))

(* lines 203-212: range in units of 1e-8 m from the two range bytes, with  *)
(* the offsets in hundredths and the uncorrected range in millimetres      *)
Range(b0, b1, corr) ==
    LET r == (b0 + 256 * b1) * DISTANCE_RESOLUTION
    IN  corr.offset1 * r * r + corr.offset2 * r * 1000 + corr.offset3 * 1000000

\* offset of slot j's bytes in a block's data: k of the inner loop
SlotOffset(j) == j * RAW_SCAN_SIZE

\* lines 193-215: the sample written for slot j of block b
Sample(raw, lo, up, b, j) ==
    LET header == RawHeader(raw, b)
        corr == Corrections(header, lo, up)[j]
        k == SlotOffset(j)
    IN  [laser_number |-> j + BankOrigin(header),
         heading      |-> Heading(Rotation(RawRotation(raw, b)), corr),
         pitch        |-> corr.vertical,
         range        |-> Range(RawData(raw, b, k), RawData(raw, b, k + 1), corr),
         intensity    |-> RawData(raw, b, k + 2),
         revolution   |-> RawRevolution(raw) % 65536]

\* BlockScans with the slots in descending order (sensitivity check of C2)
BlockScansDescending(raw, lo, up, b) ==
    [s \in 1 .. SCANS_PER_BLOCK |-> Sample(raw, lo, up, b, SCANS_PER_BLOCK - s)]

\* lines 191-218: the samples the inner loop writes for block b, in order
BlockScans(raw, lo, up, b) ==
    [s \in 1 .. SCANS_PER_BLOCK |-> Sample(raw, lo, up, b, s - 1)]

(* lines 175-219: the samples written at scans[0], scans[1], ... as index  *)
(* advances by one per write, for blocks b .. BLOCKS_PER_PACKET - 1        *)
RECURSIVE packet2scans(_, _, _, _)
packet2scans(raw, lo, up, b) ==
    IF b >= BLOCKS_PER_PACKET THEN <<>>
    ELSE BlockScans(raw, lo, up, b) \o packet2scans(raw, lo, up, b + 1)

ZeroScan ==
    [laser_number |-> 0, heading |-> 0, pitch |-> 0, range |-> 0,
     intensity |-> 0, revolution |-> 0]

\* std::vector::resize(n): keep the first n, value-initialise the rest
Resize(v, n, zero) == [p \in 1 .. n |-> IF p <= Len(v) THEN v[p] ELSE zero]

\* the vector after the writes w at positions 0 .. Len(w) - 1
Overwrite(v, w) == [p \in 1 .. Len(v) |-> IF p <= Len(w) THEN w[p] ELSE v[p]]

\* lines 253-264: the fields scan2xyz copies (x, y, z are not represented)
scan2xyz(scan) ==
    [laser_number |-> scan.laser_number,
     heading      |-> scan.heading,
     revolution   |-> scan.revolution,
     intensity    |-> scan.intensity]

\* one callback invocation: which callback, with what arguments
Call(cb, batch, id, frame_id) ==
    [cb |-> cb, size |-> Len(batch), pkt |-> id, stamp |-> PktStamp(id),
     frame_id |-> frame_id]

\* Notify without the ros::ok() test (sensitivity check of C7)
NotifyIgnoringShutdown(ok, set, log, call) == IF set THEN Append(log, call) ELSE log

\* lines 232-237 and 280-285: return on shutdown, else call cb_ if it is set
Notify(ok, set, log, call) == IF ok /\ set THEN Append(log, call) ELSE log

\* the objects the model runs: class, scans callback set, XYZ callback set
Configs == {<<"scans", TRUE, FALSE>>, <<"xyz", FALSE, TRUE>>, <<"xyz", TRUE, FALSE>>}

InitDecode ==
    /\ \E c \in Configs : kind = c[1] /\ cbScans = c[2] /\ cbXYZ = c[3]
    /\ rosok = TRUE
    /\ rawScan_ = NullScan
    /\ i = 0
    /\ scans_ = <<>>
    /\ xyzScans_ = <<>>
    /\ out = <<>>
    /\ fin = "none"

Init == pc = "idle" /\ InitLoader /\ InitDecode

\* lines 51-57: processScan up to the loop
ProcessScan(scanMsg) ==
    /\ pc = "idle"
    /\ rawScan_' = scanMsg
    /\ out' = <<>>
    /\ IF uninitialized_
       THEN /\ fin' = "gated"
            /\ UNCHANGED <<pc, i>>
       ELSE /\ fin' = "none"
            /\ i' = 0
            /\ pc' = "loop"
    /\ UNCHANGED <<kind, cbScans, cbXYZ, rosok, scans_, xyzScans_>>
    /\ UNCHANGED loaderVars

\* lines 59-64: the loop condition and the shutdown test
LoopHead ==
    /\ pc = "loop"
    /\ IF i >= Len(rawScan_.packets)
       THEN pc' = "idle" /\ fin' = "complete" /\ i' = 0
       ELSE IF ~rosok
       THEN pc' = "idle" /\ fin' = "break" /\ i' = 0
       ELSE pc' = "packet" /\ fin' = fin /\ i' = i
    /\ UNCHANGED <<kind, cbScans, cbXYZ, rosok, rawScan_, scans_, xyzScans_, out>>
    /\ UNCHANGED loaderVars

\* lines 225-238: RawDataScans::processPacket on packet i
ScansProcessPacket(g) ==
    /\ pc = "packet"
    /\ LET id == rawScan_.packets[i + 1]
           w == packet2scans(RawView(id, g), lower_, upper_, 0)
           v == Overwrite(Resize(scans_, SCANS_PER_PACKET, ZeroScan), w)
       IN  /\ scans_' = v
           /\ out' = Notify(rosok, cbScans, out,
                            Call("scans", v, id, rawScan_.frame_id))
    /\ IF kind = "xyz"
       THEN pc' = "xyz" /\ i' = i
       ELSE pc' = "loop" /\ i' = i + 1
    /\ UNCHANGED <<kind, cbScans, cbXYZ, rosok, rawScan_, xyzScans_, fin>>
    /\ UNCHANGED loaderVars

\* lines 273-286: the rest of RawDataXYZ::processPacket on packet i
XYZProcessPacket ==
    /\ pc = "xyz"
    /\ LET id == rawScan_.packets[i + 1]
           x == [p \in 1 .. Len(scans_) |-> scan2xyz(scans_[p])]
       IN  /\ xyzScans_' = x
           /\ out' = Notify(rosok, cbXYZ, out,
                            Call("xyz", x, id, rawScan_.frame_id))
    /\ pc' = "loop"
    /\ i' = i + 1
    /\ UNCHANGED <<kind, cbScans, cbXYZ, rosok, rawScan_, scans_, fin>>
    /\ UNCHANGED loaderVars

\* the node is shut down: ros::ok() is false from now on
Shutdown ==
    /\ rosok
    /\ rosok' = FALSE
    /\ UNCHANGED <<pc, kind, cbScans, cbXYZ, rawScan_, i, scans_, xyzScans_, out, fin>>
    /\ UNCHANGED loaderVars

\* ------------------------------------------------- calibration file lines

\* "5 10.0 -2.0 0.1 0.2 0.3 1"
LnLower5 ==
    Line("data", <<TInt(5), TDec(10, 0), TDec(-2, 0), TDec(0, 10), TDec(0, 20),
                   TDec(0, 30), TInt(1)>>, 25)

\* "40 -7.5 4.25 0 1 0 1"
LnUpper40 ==
    Line("data", <<TInt(40), TDec(-7, 50), TDec(4, 25), TInt(0), TInt(1),
                   TInt(0), TInt(1)>>, 20)

\* "31 1.0 3.0 0 1 0 1"
LnLower31 ==
    Line("data", <<TInt(31), TDec(1, 0), TDec(3, 0), TInt(0), TInt(1), TInt(0),
                   TInt(1)>>, 18)

\* "32 2.0 -3.0 0 1 0 0"
LnUpper32 ==
    Line("data", <<TInt(32), TDec(2, 0), TDec(-3, 0), TInt(0), TInt(1), TInt(0),
                   TInt(0)>>, 19)

\* "6 1.5 2.5 0 1 0 .5 .25 1": the 7th field stops %d, the 9-field form matches
LnNine6 ==
    Line("data", <<TInt(6), TDec(1, 50), TDec(2, 50), TInt(0), TInt(1), TInt(0),
                   TFrac(50), TFrac(25), TInt(1)>>, 24)

\* "not a calibration line"
LnText == Line("data", <<TWord, TWord, TWord, TWord>>, 22)

\* "7 9.0 8.0 0 2 0 .75 .5 x": both forms fail, after assigning 6 and 8 fields
LnPartial ==
    Line("data", <<TInt(7), TDec(9, 0), TDec(8, 0), TInt(0), TInt(2), TInt(0),
                   TFrac(75), TFrac(50), TWord>>, 24)

\* "-1 4.0 5.0 0 1 0 1"
LnNegative ==
    Line("data", <<TInt(-1), TDec(4, 0), TDec(5, 0), TInt(0), TInt(1), TInt(0),
                   TInt(1)>>, 18)

\* "64 6.0 7.0 0 1 0 1"
LnSixtyFour ==
    Line("data", <<TInt(64), TDec(6, 0), TDec(7, 0), TInt(0), TInt(1), TInt(0),
                   TInt(1)>>, 18)

\* a line of text of 256 characters
LnLongText == Line("data", <<TWord, TWord>>, BufSize)

\* "# upper bank", "upper", "lower"
LnComment == Line("#", <<TWord, TWord, TWord>>, 12)

LnUpperMark == Line("upper", <<TWord>>, 5)

LnLowerMark == Line("lower", <<TWord>>, 5)

\* the lines the loader specification draws from
AllLines ==
    {LnLower5, LnUpper40, LnLower31, LnUpper32, LnNine6, LnText, LnPartial,
     LnNegative, LnSixtyFour, LnLongText, LnComment, LnUpperMark, LnLowerMark}

\* the lines the pipeline specification draws from
CalLines == {LnLower5, LnUpper40}

\* ------------------------------------------------------- specifications

\* one load by setup, of a file of any lines of AllLines
NextLoad ==
    \/ SetupFail
    \/ ~loaded /\ SetupOpen
    \/ \E l \in AllLines : SetupLine(l)
    \/ SetupEof
    \/ \E l \in AllLines : SetupLongLine(l)
    \/ SetupClose

SpecLoad == Init /\ [][NextLoad]_vars

\* the whole pipeline: setup on files of lines of CalLines, and scans
Next ==
    \/ SetupFail
    \/ SetupOpen
    \/ \E l \in CalLines : SetupLine(l)
    \/ SetupEof
    \/ SetupClose
    \/ \E scanMsg \in ScanSet : ProcessScan(scanMsg)
    \/ LoopHead
    \/ \E g \in GarbageBytes : ScansProcessPacket(g)
    \/ XYZProcessPacket
    \/ Shutdown

Spec == Init /\ [][Next]_vars

\* ================================================================ claims

\* the array named by a write record
BankArray(bank) == IF bank = "lower" THEN lower_ ELSE upper_

\* a line that matches neither the 7-field nor the 9-field layout
MatchesNeither(l) == l.tag = "data" /\ ~ParseLine(ZeroLocals, l.toks).matched

\* a line that the 7-field form accepts
SevenField(l) == l.tag = "data" /\ Len(sscanf(l.toks, Fmt7)) = 7

\* scans_ holds the decode of packet LastId under the current tables
JustDecoded == pc = "xyz" \/ (pc = "loop" /\ i > 0)

LastId == IF pc = "xyz" THEN rawScan_.packets[i + 1] ELSE rawScan_.packets[i]

ValidPacket(id) == PktLen(id) = PACKET_SIZE

\* position of slot j of block b in scans_ (a 1-based sequence)
Pos(b, j) == b * SCANS_PER_BLOCK + j + 1

(* C1: while no setup call has returned success, processScan is a no-op:   *)
(* it decodes no packet, invokes no callback, and leaves the batch empty.  *)
C1_GatedUntilLoaded ==
    ~loaded =>
        /\ pc \notin {"packet", "xyz"}
        /\ scans_ = <<>>
        /\ xyzScans_ = <<>>
        /\ out = <<>>

(* C2: decoding a valid packet leaves exactly BLOCKS_PER_PACKET *           *)
(* SCANS_PER_BLOCK samples, the sample of slot j of block b at position    *)
(* b * SCANS_PER_BLOCK + j: it carries that slot's intensity byte and is   *)
(* the sample computed from that block and slot.                           *)
C2_BlockMajorLayout ==
    (JustDecoded /\ ValidPacket(LastId)) =>
        /\ Len(scans_) = 384
        /\ Len(scans_) = BLOCKS_PER_PACKET * SCANS_PER_BLOCK
        /\ \A b \in BlockIdx : \A j \in LaserIdx :
              /\ scans_[Pos(b, j)].intensity = PktByte(LastId, b, 3 * j + 2)
              /\ scans_[Pos(b, j)] = Sample(RawView(LastId, 0), lower_, upper_, b, j)

C2_Witness ==
    /\ JustDecoded
    /\ ValidPacket(LastId)
    /\ loaded
    /\ scans_[Pos(1, 5)].pitch # 0
    /\ scans_[Pos(11, 31)].intensity = PktByte(LastId, 11, 95)

(* C3: a packet buffer shorter than PACKET_SIZE is rejected: nothing is    *)
(* decoded from it and no callback is invoked for it.                      *)
C3_ShortPacketRejected ==
    /\ JustDecoded => ValidPacket(LastId)
    /\ \A n \in DOMAIN out : ValidPacket(out[n].pkt)

(* C4: a data line that setup accepts with an index in [0, 64) is stored   *)
(* in lower_[index] when index < 32 and in upper_[index - 32] otherwise,   *)
(* with the line's values, whatever marker lines came before; no other     *)
(* element of either array changes.  The line "40 -7.5 4.25 0 1 0 1" goes  *)
(* to upper_[8].                                                           *)
C4_BankRouting ==
    [][(pc = "setup" /\ nread' = nread + 1 /\ wr'.bank # "none"
            /\ loc'.index \in 0 .. 63)
       => /\ IF loc'.index < 32
             THEN /\ lower_' = [lower_ EXCEPT ![loc'.index] = AnglesOf(loc')]
                  /\ upper_' = upper_
             ELSE /\ upper_' = [upper_ EXCEPT ![loc'.index - 32] = AnglesOf(loc')]
                  /\ lower_' = lower_
          /\ buffer' = LnUpper40 =>
                /\ upper_'[8].rotational = -750
                /\ upper_'[8].vertical = 425
                /\ upper_'[8].offset2 = 100
                /\ upper_'[8].enabled = 1
          /\ buffer' = LnLower5 =>
                /\ lower_'[5].rotational = 1000
                /\ lower_'[5].vertical = -200
                /\ lower_'[5].offset1 = 10
                /\ lower_'[5].offset3 = 30]_vars

C4_Witness ==
    /\ pc = "setup"
    /\ nread = 2
    /\ buffer = LnUpper40
    /\ wr = [bank |-> "upper", ind |-> 8]
    /\ upper_[8].vertical = 425
    /\ lower_ = [j \in LaserIdx |-> ZeroAngles]

(* C5: a line of the file that matches neither layout, of any length,      *)
(* changes no table element and does not end the load: the loop goes on    *)
(* to the lines after it.                                                  *)
C5_MalformedLineSkipped ==
    [][(pc = "setup" /\ nread' = nread + 1 /\ MatchesNeither(buffer'))
       => (pc' = "setup" /\ lower_' = lower_ /\ upper_' = upper_)]_vars

CallsOf(cb) == SelectSeq(out, LAMBDA e : e.cb = cb)

\* one invocation per packet of rawScan_, in the packets' order
OnePerPacket(cb) ==
    [n \in 1 .. Len(rawScan_.packets) |->
        [cb |-> cb, size |-> SCANS_PER_PACKET, pkt |-> rawScan_.packets[n],
         stamp |-> PktStamp(rawScan_.packets[n]),
         frame_id |-> rawScan_.frame_id]]

(* C7: a processScan call that runs to the end of its scan with no         *)
(* shutdown has invoked each subscribed callback once per packet, in the   *)
(* packets' order, each with that packet's stamp and the scan's frame id;  *)
(* and once ros::ok() is false no further callback is invoked.             *)
C7_OrderedPerPacketOutput ==
    /\ [](fin = "complete" /\ rosok =>
            /\ CallsOf("scans") = IF cbScans THEN OnePerPacket("scans") ELSE <<>>
            /\ CallsOf("xyz") = IF kind = "xyz" /\ cbXYZ
                                THEN OnePerPacket("xyz") ELSE <<>>)
    /\ [][~rosok => (out' = out \/ out' = <<>>)]_vars

C7_Witness ==
    /\ fin = "complete"
    /\ rosok
    /\ kind = "xyz"
    /\ cbXYZ
    /\ Len(rawScan_.packets) = 2
    /\ Len(out) = 2
    /\ out[1].stamp # out[2].stamp

(* C8: every write setup performs for an accepted line targets a position  *)
(* in [0, 32) of lower_ or upper_, whatever index the line carries.        *)
C8_LoaderWritesInBounds == wr.bank # "none" => wr.ind \in 0 .. 31

(* C9: in the decode of a packet, the sample of slot j of a block tagged   *)
(* LOWER_BANK has laser_number j and the pitch and distance coefficients   *)
(* of lower_[j]; of a block tagged UPPER_BANK, laser_number j + 32 and     *)
(* those of upper_[j]; its revolution is the packet's counter; every       *)
(* laser_number lies in [0, 64).                                           *)
C9_BankSelection ==
    (JustDecoded /\ ValidPacket(LastId)) =>
        \A b \in BlockIdx : \A j \in LaserIdx :
            LET s == scans_[Pos(b, j)]
                r == 2 * (PktByte(LastId, b, 3 * j)
                            + 256 * PktByte(LastId, b, 3 * j + 1))
                quad(c) == c.offset1 * r * r + c.offset2 * r * 1000
                             + c.offset3 * 1000000
            IN  /\ PktHeader(LastId, b) = LOWER_BANK =>
                      /\ s.laser_number = j
                      /\ s.pitch = lower_[j].vertical
                      /\ s.range = quad(lower_[j])
                /\ PktHeader(LastId, b) = UPPER_BANK =>
                      /\ s.laser_number = j + 32
                      /\ s.pitch = upper_[j].vertical
                      /\ s.range = quad(upper_[j])
                /\ s.revolution = PktRevolution(LastId)
                /\ s.laser_number \in 0 .. 63

C9_Witness ==
    /\ JustDecoded
    /\ LastId = 1
    /\ lower_[5].vertical = -200
    /\ upper_[8].vertical = 425
    /\ scans_[Pos(1, 5)].pitch = -200
    /\ scans_[Pos(1, 5)].laser_number = 5
    /\ scans_[Pos(0, 8)].pitch = 425
    /\ scans_[Pos(0, 8)].laser_number = 40
    /\ scans_[Pos(0, 8)].range > 0
    /\ scans_[Pos(0, 0)].revolution = 65535

(* C10: the element setup stores for a data line is determined by that     *)
(* line's fields alone; a 7-field line stores zero horzCorr and vertCorr   *)
(* whatever lines came before it.                                          *)
C10_LineIndependence ==
    (pc = "setup" /\ wr.bank # "none" /\ wr.ind \in LaserIdx) =>
        /\ BankArray(wr.bank)[wr.ind] = AnglesOf(ParseLine(ZeroLocals, buffer.toks).loc)
        /\ SevenField(buffer) =>
              /\ BankArray(wr.bank)[wr.ind].horzCorr = 0
              /\ BankArray(wr.bank)[wr.ind].vertCorr = 0

====
